---- MODULE Spec2Model ----
(***************************************************************************)
(* A model of pymodbus/payload.py: BinaryPayloadBuilder (the encoder) and  *)
(* BinaryPayloadDecoder (the decoder with its read cursor).                *)
(*                                                                         *)
(* Bytes are naturals 0..255 and a byte string is a sequence of them.      *)
(* 8 and 16 bit integers are TLA+ integers.  32 and 64 bit integers do not *)
(* fit TLC's integers, so a wide integer is a sign and a magnitude:        *)
(*   [neg |-> BOOLEAN, mag |-> <<limb_0, ..., limb_k>>]                    *)
(* with 16-bit limbs, least significant limb first; struct's "!I", "!i",   *)
(* "!Q", "!q" formats convert it to and from two's complement big-endian   *)
(* bytes.  A value that is handed out by a decode call is tagged with its  *)
(* kind: [kind |-> "int" | "wide" | "bits" | "bytes" | "error", v |-> ...].*)
(***************************************************************************)
EXTENDS Integers, Sequences, FiniteSets, TLC

VARIABLES
  builder,   \* BinaryPayloadBuilder: [payload, byteorder, wordorder, repack]
  decoder,   \* BinaryPayloadDecoder: [payload, pointer, byteorder, wordorder], or NoDecoder
  made,      \* how the decoder was constructed, and from which argument
  log,       \* history: the add_* calls on the builder since its last reset
  out,       \* history: the decoder calls since construction or the last reset
  prev,      \* history: the decoder calls of the pass the last reset() ended
  resets,    \* history: the number of decoder reset() calls
  ret        \* history: the last value each materialize operation returned

vars == <<builder, decoder, made, log, out, prev, resets, ret>>

-----------------------------------------------------------------------------
(* Bounds of the model.                                                    *)

\* add_* calls on one builder between resets
MaxCalls == 2
\* decoder calls in one pass of the decoder specification
MaxOps == 2
\* reset() calls on one decoder
MaxResets == 1
\* length of a coil list handed to fromCoils
MaxCoils == 9
\* length of a register list handed to fromRegisters
MaxRegs == 3
\* length of a bit list handed to add_bits in the bit round trip
MaxBits == 8

-----------------------------------------------------------------------------
(* pymodbus.constants.Endian, as the struct byte-order characters.         *)

Little == "<"
Big == ">"
Orders == {Little, Big}

\* What struct.pack / struct.unpack raise on a buffer of the wrong size.
StructError == [kind |-> "error", v |-> "struct.error"]

NoDecoder == [payload |-> <<>>, pointer |-> 0, byteorder |-> "", wordorder |-> ""]
None == [kind |-> "none", v |-> "None"]

-----------------------------------------------------------------------------
(* Sequences.                                                              *)

Min(a, b) == IF a < b THEN a ELSE b
Max(a, b) == IF a > b THEN a ELSE b

reversed(s) == [i \in 1..Len(s) |-> s[Len(s) + 1 - i]]

RECURSIVE join(_)
join(ss) == IF ss = <<>> THEN <<>> ELSE Head(ss) \o join(Tail(ss))

\* A Python slice index: a negative one counts from the end, and both ends clamp.
SliceIndex(i, n) == IF i < 0 THEN Max(i + n, 0) ELSE Min(i, n)

\* Python's s[a:b], 0-based, on a 1-based TLA+ sequence.
Slice(s, a, b) ==
  LET lo == SliceIndex(a, Len(s))
      hi == SliceIndex(b, Len(s))
  IN IF lo < hi THEN SubSeq(s, lo + 1, hi) ELSE <<>>

-----------------------------------------------------------------------------
(* The struct module: pack and unpack of the formats payload.py uses.      *)

WC == [b |-> 1, h |-> 2, e |-> 2, i |-> 4, l |-> 4, q |-> 8, f |-> 4, d |-> 8]

lower(c) ==
  CASE c = "B" -> "b" [] c = "H" -> "h" [] c = "I" -> "i" [] c = "Q" -> "q"
    [] OTHER -> c

signed(c) == c = lower(c)

\* 2^16 - x over the limbs (least significant first), modulo 2^(16 * Len).
RECURSIVE NegLimbs(_, _)
NegLimbs(limbs, carry) ==
  IF limbs = <<>> THEN <<>>
  ELSE LET t == (65535 - Head(limbs)) + carry
       IN <<t % 65536>> \o NegLimbs(Tail(limbs), t \div 65536)

\* The two's complement limbs of a wide integer.
WideToLimbs(x) == IF x.neg THEN NegLimbs(x.mag, 1) ELSE x.mag

\* The wide integer of two's complement limbs, read as signed or unsigned.
LimbsToWide(limbs, sgn) ==
  IF sgn /\ limbs[Len(limbs)] >= 32768
  THEN [neg |-> TRUE, mag |-> NegLimbs(limbs, 1)]
  ELSE [neg |-> FALSE, mag |-> limbs]

\* One 16-bit word in the given byte order ("!" and ">" are big-endian).
WordBytes(order, w) ==
  IF order = Little THEN <<w % 256, w \div 256>> ELSE <<w \div 256, w % 256>>

BytesWord(order, bs) ==
  IF order = Little THEN bs[2] * 256 + bs[1] ELSE bs[1] * 256 + bs[2]

\* struct.pack("!{n}H", *words) and its inverse.
pack_nH(words) == join([k \in 1..Len(words) |-> WordBytes("!", words[k])])

unpack_nH(n, bs) ==
  IF Len(bs) # 2 * n THEN StructError
  ELSE [kind |-> "words",
        v |-> [k \in 1..n |-> BytesWord("!", SubSeq(bs, 2 * k - 1, 2 * k))]]

\* struct.pack(order + code, value) for the integer codes b B h H i I q Q.
pack(order, code, value) ==
  CASE code = "B" -> <<value>>
    [] code = "b" -> <<value % 256>>
    [] code = "H" -> WordBytes(order, value)
    [] code = "h" -> WordBytes(order, value % 65536)
    [] OTHER ->
         LET be == pack_nH(reversed(WideToLimbs(value)))
         IN IF order = Little THEN reversed(be) ELSE be

\* struct.unpack(order + code, bs)[0]: the value, or struct.error when bs does
\* not have exactly the size of the format.
unpack(order, code, bs) ==
  IF Len(bs) # WC[lower(code)] THEN StructError
  ELSE CASE code = "B" -> [kind |-> "int", v |-> bs[1]]
         [] code = "b" ->
              [kind |-> "int", v |-> IF bs[1] >= 128 THEN bs[1] - 256 ELSE bs[1]]
         [] code = "H" -> [kind |-> "int", v |-> BytesWord(order, bs)]
         [] code = "h" ->
              LET w == BytesWord(order, bs)
              IN [kind |-> "int", v |-> IF w >= 32768 THEN w - 65536 ELSE w]
         [] OTHER ->
              LET be == IF order = Little THEN reversed(bs) ELSE bs
                  words == unpack_nH(Len(be) \div 2, be).v
              IN [kind |-> "wide", v |-> LimbsToWide(reversed(words), signed(code))]

-----------------------------------------------------------------------------
(* pymodbus.utilities, which payload.py imports: the bit packer, the bit   *)
(* unpacker and make_byte_string.                                          *)

\* A list of booleans left-padded with False to a multiple of 8.
PadLeft8(bits) == [k \in 1..((8 - (Len(bits) % 8)) % 8) |-> FALSE] \o bits

\* One group of 8 booleans as a byte: the group's k-th entry is bit k-1, so
\* the most significant bit is the group's last entry.
RECURSIVE BitsByte(_)
BitsByte(g) ==
  IF g = <<>> THEN 0 ELSE (IF Head(g) THEN 1 ELSE 0) + 2 * BitsByte(Tail(g))

pack_bitstring(bits) ==
  LET padded == PadLeft8(bits)
  IN [k \in 1..(Len(padded) \div 8) |-> BitsByte(SubSeq(padded, 8 * k - 7, 8 * k))]

\* The 8 bits of a byte, least significant first.
ByteBits(b) == [k \in 1..8 |-> (b \div (2 ^ (k - 1))) % 2 = 1]

unpack_bitstring(bs) == join([k \in 1..Len(bs) |-> ByteBits(bs[k])])

\* bytes stay bytes (a str would be encoded; payload.py only hands it slices
\* of the byte buffer).
make_byte_string(s) == s

-----------------------------------------------------------------------------
(* BinaryPayloadBuilder.                                                   *)

Builder(payload, byteorder, wordorder, repack) ==
  [payload |-> payload, byteorder |-> byteorder, wordorder |-> wordorder,
   repack |-> repack]

\* The word reordering step of _pack_words.
PackWordOrder(wordorder, payload) ==
  IF wordorder = Little THEN reversed(payload) ELSE payload

\* A variant of _pack_words that packs the whole value with the byte order in
\* one step (the commented-out "fstring = self._byteorder + 'I'").
_pack_words_merged(self, fstring, value) == pack(self.byteorder, fstring, value)

_pack_words(self, fstring, value) ==
  LET value1 == pack("!", fstring, value)
      wordorder == WC[lower(fstring)] \div 2
      payload == unpack_nH(wordorder, value1).v
      payload1 == PackWordOrder(self.wordorder, payload)
      payload2 == [k \in 1..Len(payload1) |-> pack(self.byteorder, "H", payload1[k])]
  IN join(payload2)

to_string(self) == join(self.payload)

\* A variant of build that does not pad an odd payload.
build_unpadded(self) ==
  LET string == to_string(self)
      length == Len(string)
  IN [k \in 1..((length + 1) \div 2) |-> Slice(string, 2 * (k - 1), 2 * (k - 1) + 2)]

build(self) ==
  LET string == to_string(self)
      length == Len(string)
      string1 == string \o [k \in 1..(length % 2) |-> 0]
  IN [k \in 1..((length + 1) \div 2) |-> Slice(string1, 2 * (k - 1), 2 * (k - 1) + 2)]

\* A variant of to_registers that reads every chunk in network order.
to_registers_norepack(self) ==
  LET payload == build(self)
  IN [k \in 1..Len(payload) |-> unpack("!", "H", payload[k]).v]

\* A variant of to_registers that reads every chunk as a signed word.
to_registers_signed(self) ==
  LET payload == build(self)
  IN [k \in 1..Len(payload) |->
        unpack(IF self.repack THEN self.byteorder ELSE "!", "h", payload[k]).v]

to_registers(self) ==
  LET fstring == "!"
      payload == build(self)
  IN IF self.repack
     THEN [k \in 1..Len(payload) |-> unpack(self.byteorder, "H", payload[k]).v]
     ELSE [k \in 1..Len(payload) |-> unpack(fstring, "H", payload[k]).v]

\* A variant of format016b that lists the least significant bit first.
format016b_lsb(reg) == [k \in 1..16 |-> (reg \div (2 ^ (k - 1))) % 2 = 1]

\* format(reg, "016b"): the 16 bits of a register, most significant first.
format016b(reg) == [k \in 1..16 |-> (reg \div (2 ^ (16 - k))) % 2 = 1]

to_coils(self) ==
  LET payload == to_registers(self)
  IN join([k \in 1..Len(payload) |-> format016b(payload[k])])

reset_builder(self) == [self EXCEPT !.payload = <<>>]

add_bits(self, values) ==
  LET value == pack_bitstring(values)
  IN [self EXCEPT !.payload = Append(@, value)]

add_8bit_uint(self, value) ==
  [self EXCEPT !.payload = Append(@, pack(self.byteorder, "B", value))]

add_16bit_uint(self, value) ==
  [self EXCEPT !.payload = Append(@, pack(self.byteorder, "H", value))]

add_32bit_uint(self, value) ==
  LET p_string == _pack_words(self, "I", value)
  IN [self EXCEPT !.payload = Append(@, p_string)]

add_64bit_uint(self, value) ==
  LET p_string == _pack_words(self, "Q", value)
  IN [self EXCEPT !.payload = Append(@, p_string)]

add_8bit_int(self, value) ==
  [self EXCEPT !.payload = Append(@, pack(self.byteorder, "b", value))]

add_16bit_int(self, value) ==
  [self EXCEPT !.payload = Append(@, pack(self.byteorder, "h", value))]

add_32bit_int(self, value) ==
  LET p_string == _pack_words(self, "i", value)
  IN [self EXCEPT !.payload = Append(@, p_string)]

add_64bit_int(self, value) ==
  LET p_string == _pack_words(self, "q", value)
  IN [self EXCEPT !.payload = Append(@, p_string)]

-----------------------------------------------------------------------------
(* BinaryPayloadDecoder.  A method that returns a value is an operator     *)
(* giving the decoder after the call and the value: [self, val].           *)

ParameterException == [kind |-> "error", v |-> "ParameterException"]

\* __init__(payload, byteorder, wordorder)
Decoder(payload, byteorder, wordorder) ==
  [payload |-> payload, pointer |-> 0, byteorder |-> byteorder,
   wordorder |-> wordorder]

\* A variant of isinstance_list that takes any list-like argument for a list.
isinstance_listlike(x) == x.kind \in {"list", "tuple"}

\* isinstance(x, list) on a tagged argument
isinstance_list(x) == x.kind = "list"

\* What a classmethod hands back: the decoder it built.
Returned(d) == [kind |-> "decoder", v |-> d]

\* A variant of fromRegisters that flattens each register with the byte order
\* instead of "!H".
fromRegisters_byteorder(registers, byteorder, wordorder) ==
  IF isinstance_list(registers)
  THEN LET payload ==
             join([k \in 1..Len(registers.v) |-> pack(byteorder, "H", registers.v[k])])
       IN Returned(Decoder(payload, byteorder, wordorder))
  ELSE ParameterException

\* fromRegisters on a tagged argument: the decoder, or ParameterException.
fromRegisters(registers, byteorder, wordorder) ==
  IF isinstance_list(registers)
  THEN LET payload ==
             join([k \in 1..Len(registers.v) |-> pack("!", "H", registers.v[k])])
       IN Returned(Decoder(payload, byteorder, wordorder))
  ELSE ParameterException

bit_chunks(coils, size) ==
  [k \in 1..((Len(coils) + size - 1) \div size) |->
     Slice(coils, size * (k - 1), size * (k - 1) + size)]

\* The false values fromCoils puts in front of the coils.
CoilPadding(coils) == Len(coils) % 8

\* fromCoils on a tagged argument: the decoder, or ParameterException.
\* cls(payload, byteorder) leaves the word order to __init__'s default, Endian.Big.
\* A variant of fromCoils that packs every chunk of 8 coils as it stands.
fromCoils_unreversed(coils, byteorder, wordorder) ==
  IF isinstance_list(coils)
  THEN LET padding == CoilPadding(coils.v)
           coils1 == IF padding # 0
                     THEN [k \in 1..padding |-> FALSE] \o coils.v ELSE coils.v
           chunks == bit_chunks(coils1, 8)
           payload == join([k \in 1..Len(chunks) |-> pack_bitstring(chunks[k])])
       IN Returned(Decoder(payload, byteorder, Big))
  ELSE ParameterException

fromCoils(coils, byteorder, wordorder) ==
  IF isinstance_list(coils)
  THEN LET padding == CoilPadding(coils.v)
           coils1 == IF padding # 0
                     THEN [k \in 1..padding |-> FALSE] \o coils.v ELSE coils.v
           chunks == bit_chunks(coils1, 8)
           payload ==
             join([k \in 1..Len(chunks) |-> pack_bitstring(reversed(chunks[k]))])
       IN Returned(Decoder(payload, byteorder, Big))
  ELSE ParameterException

\* A variant of UnpackWordOrder that never reorders the words.
UnpackWordOrder_never(wordorder, handle) == handle

\* The word reordering step of _unpack_words.
UnpackWordOrder(wordorder, handle) ==
  IF wordorder = Little THEN reversed(handle) ELSE handle

\* The bytes _unpack_words returns, or struct.error.
_unpack_words(self, fstring, handle) ==
  LET handle1 == make_byte_string(handle)
      wc_value == WC[lower(fstring)] \div 2
      handle2 == unpack_nH(wc_value, handle1)
  IN IF handle2 = StructError THEN StructError
     ELSE LET handle3 == UnpackWordOrder(self.wordorder, handle2.v)
              handle4 == [k \in 1..Len(handle3) |-> pack(self.byteorder, "H", handle3[k])]
          IN [kind |-> "bytes", v |-> join(handle4)]

\* A variant of reset that leaves the cursor where it is.
reset_keep(self) == self

reset(self) == [self EXCEPT !.pointer = 0]

\* self._pointer += n
Advance(self, n) == [self EXCEPT !.pointer = @ + n]

\* A variant of DecodeDirect that fills a short slice with zero bytes.
DecodeDirect_padded(self, code) ==
  LET size == WC[lower(code)]
      self1 == Advance(self, size)
      handle == Slice(self1.payload, self1.pointer - size, self1.pointer)
      filled == handle \o [k \in 1..(size - Len(handle)) |-> 0]
  IN [self |-> self1, val |-> unpack(self1.byteorder, code, filled)]

\* decode_8bit_*, decode_16bit_*: the slice unpacked with the byte order.
DecodeDirect(self, code) ==
  LET size == WC[lower(code)]
      self1 == Advance(self, size)
      handle == make_byte_string(Slice(self1.payload, self1.pointer - size, self1.pointer))
  IN [self |-> self1, val |-> unpack(self1.byteorder, code, handle)]

\* decode_32bit_*, decode_64bit_*: the slice through _unpack_words, then "!".
DecodeWords(self, fstring) ==
  LET size == WC[lower(fstring)]
      self1 == Advance(self, size)
      handle == Slice(self1.payload, self1.pointer - size, self1.pointer)
      handle1 == _unpack_words(self1, fstring, handle)
  IN [self |-> self1,
      val |-> IF handle1 = StructError THEN StructError
              ELSE unpack("!", fstring, handle1.v)]

decode_8bit_uint(self) == DecodeDirect(self, "B")
decode_16bit_uint(self) == DecodeDirect(self, "H")
decode_32bit_uint(self) == DecodeWords(self, "I")
decode_64bit_uint(self) == DecodeWords(self, "Q")
decode_8bit_int(self) == DecodeDirect(self, "b")
decode_16bit_int(self) == DecodeDirect(self, "h")
decode_32bit_int(self) == DecodeWords(self, "i")
decode_64bit_int(self) == DecodeWords(self, "q")

decode_bits(self) ==
  LET self1 == Advance(self, 1)
      handle == make_byte_string(Slice(self1.payload, self1.pointer - 1, self1.pointer))
  IN [self |-> self1, val |-> [kind |-> "bits", v |-> unpack_bitstring(handle)]]

decode_string(self, size) ==
  LET self1 == Advance(self, size)
  IN [self |-> self1,
      val |-> [kind |-> "bytes",
               v |-> Slice(self1.payload, self1.pointer - size, self1.pointer)]]

skip_bytes(self, nbytes) == [self |-> Advance(self, nbytes), val |-> None]

-----------------------------------------------------------------------------
(* The inputs the calls are made with.                                     *)

IntV(v) == [kind |-> "int", v |-> v]
Wide(neg, mag) == [kind |-> "wide", v |-> [neg |-> neg, mag |-> mag]]
Bits(v) == [kind |-> "bits", v |-> v]
Bytes(v) == [kind |-> "bytes", v |-> v]
List(v) == [kind |-> "list", v |-> v]

\* Values of each integer type: both ends of its range and a value whose
\* bytes all differ.
U8 == {0, 18, 255}
I8 == {-128, -1, 18}
U16 == {1, 258, 65535}
I16 == {-32768, -2, 258}
\* 1, 0x01020304, 2^32 - 1
U32 == {Wide(FALSE, <<1, 0>>), Wide(FALSE, <<772, 258>>), Wide(FALSE, <<65535, 65535>>)}
\* -2^31, -2, 0x01020304
I32 == {Wide(TRUE, <<0, 32768>>), Wide(TRUE, <<2, 0>>), Wide(FALSE, <<772, 258>>)}
\* 1, 0x0102030405060708, 2^64 - 1
U64 ==
  {Wide(FALSE, <<1, 0, 0, 0>>), Wide(FALSE, <<1800, 1286, 772, 258>>),
   Wide(FALSE, <<65535, 65535, 65535, 65535>>)}
\* -2^63, -2, 0x0102030405060708
I64 ==
  {Wide(TRUE, <<0, 0, 0, 32768>>), Wide(TRUE, <<2, 0, 0, 0>>),
   Wide(FALSE, <<1800, 1286, 772, 258>>)}

\* Every list of booleans of a length in lens.
BoolLists(lens) == UNION {[1..n -> BOOLEAN] : n \in lens}

\* The bit lists of the round-trip specification.
BitSamples == {<<TRUE, FALSE, TRUE>>, <<TRUE, FALSE, FALSE, FALSE, TRUE, FALSE, FALSE, TRUE>>}

Configs == {Builder(<<>>, bo, wo, rp) : bo \in Orders, wo \in Orders, rp \in BOOLEAN}

NoRet == [to_string |-> None, build |-> None, to_registers |-> None, to_coils |-> None]
NotMade == [how |-> "none", arg |-> None, raised |-> FALSE]

-----------------------------------------------------------------------------
(* The calls on the builder.                                               *)

Encoding == made.how = "none"

\* An add_* call: self1 is the builder after it.
Add(op, value, self1) ==
  /\ Encoding
  /\ Len(log) < MaxCalls
  /\ builder' = self1
  /\ log' = Append(log, [op |-> op, value |-> value])
  /\ ret' = NoRet
  /\ UNCHANGED <<decoder, made, out, prev, resets>>

Call_add_bits(S) == \E values \in S : Add("add_bits", Bits(values), add_bits(builder, values))
Call_add_8bit_uint == \E value \in U8 : Add("add_8bit_uint", IntV(value), add_8bit_uint(builder, value))
Call_add_16bit_uint == \E value \in U16 : Add("add_16bit_uint", IntV(value), add_16bit_uint(builder, value))
Call_add_32bit_uint == \E value \in U32 : Add("add_32bit_uint", value, add_32bit_uint(builder, value.v))
Call_add_64bit_uint == \E value \in U64 : Add("add_64bit_uint", value, add_64bit_uint(builder, value.v))
Call_add_8bit_int == \E value \in I8 : Add("add_8bit_int", IntV(value), add_8bit_int(builder, value))
Call_add_16bit_int == \E value \in I16 : Add("add_16bit_int", IntV(value), add_16bit_int(builder, value))
Call_add_32bit_int == \E value \in I32 : Add("add_32bit_int", value, add_32bit_int(builder, value.v))
Call_add_64bit_int == \E value \in I64 : Add("add_64bit_int", value, add_64bit_int(builder, value.v))

Call_reset_builder ==
  /\ Encoding
  /\ builder' = reset_builder(builder)
  /\ log' = <<>>
  /\ ret' = NoRet
  /\ UNCHANGED <<decoder, made, out, prev, resets>>

\* A materialize call returns a value and assigns nothing.
Materialize(op, value) ==
  /\ Encoding
  /\ ret' = [ret EXCEPT ![op] = [kind |-> "ret", v |-> value]]
  /\ UNCHANGED <<builder, decoder, made, log, out, prev, resets>>

\* A variant of the build() call that consumes the fragments it returns.
Call_build_consuming ==
  /\ Encoding
  /\ ret' = [ret EXCEPT !.build = [kind |-> "ret", v |-> build(builder)]]
  /\ builder' = reset_builder(builder)
  /\ UNCHANGED <<decoder, made, log, out, prev, resets>>

Call_to_string == Materialize("to_string", to_string(builder))
Call_build == Materialize("build", build(builder))
Call_to_registers == Materialize("to_registers", to_registers(builder))
Call_to_coils == Materialize("to_coils", to_coils(builder))

-----------------------------------------------------------------------------
(* The construction of a decoder and the calls on it.                      *)

\* A constructor or classmethod call: result is what it returns or raises.
Construct(how, arg, result) ==
  /\ Encoding
  /\ made' = [how |-> how, arg |-> arg, raised |-> result.kind = "error"]
  /\ decoder' = IF result.kind = "decoder" THEN result.v ELSE decoder
  /\ out' = <<>>
  /\ UNCHANGED <<builder, log, prev, resets, ret>>

\* The transport hands the built payload to the other side, which decodes with
\* the builder's byte order and word order.
Make_direct ==
  LET arg == Bytes(to_string(builder))
  IN Construct("direct", arg,
               Returned(Decoder(arg.v, builder.byteorder, builder.wordorder)))

Make_fromRegisters ==
  LET arg == List(to_registers(builder))
  IN Construct("fromRegisters", arg,
               fromRegisters(arg, builder.byteorder, builder.wordorder))

Make_fromCoils ==
  LET arg == List(to_coils(builder))
  IN Construct("fromCoils", arg,
               fromCoils(arg, builder.byteorder, builder.wordorder))

\* fromCoils on any argument.
Call_fromCoils(Args) ==
  \E coils \in Args, byteorder \in Orders, wordorder \in Orders :
    Construct("fromCoils", coils, fromCoils(coils, byteorder, wordorder))

Decoding == made.how # "none" /\ ~made.raised

\* A call on the decoder: res is [self, val], the decoder after it and what
\* it returned or raised.
Decode(op, arg, res) ==
  /\ Decoding
  /\ decoder' = res.self
  /\ out' = Append(out, [op |-> op, arg |-> arg, val |-> res.val])
  /\ UNCHANGED <<builder, made, log, prev, resets, ret>>

Call_decode_8bit_uint == Decode("decode_8bit_uint", 0, decode_8bit_uint(decoder))
Call_decode_16bit_uint == Decode("decode_16bit_uint", 0, decode_16bit_uint(decoder))
Call_decode_32bit_uint == Decode("decode_32bit_uint", 0, decode_32bit_uint(decoder))
Call_decode_64bit_uint == Decode("decode_64bit_uint", 0, decode_64bit_uint(decoder))
Call_decode_8bit_int == Decode("decode_8bit_int", 0, decode_8bit_int(decoder))
Call_decode_16bit_int == Decode("decode_16bit_int", 0, decode_16bit_int(decoder))
Call_decode_32bit_int == Decode("decode_32bit_int", 0, decode_32bit_int(decoder))
Call_decode_64bit_int == Decode("decode_64bit_int", 0, decode_64bit_int(decoder))
Call_decode_bits == Decode("decode_bits", 0, decode_bits(decoder))
Call_decode_string(size) == Decode("decode_string", size, decode_string(decoder, size))
Call_skip_bytes(nbytes) == Decode("skip_bytes", nbytes, skip_bytes(decoder, nbytes))

Call_reset ==
  /\ Decoding
  /\ resets < MaxResets
  /\ decoder' = reset(decoder)
  /\ prev' = out
  /\ out' = <<>>
  /\ resets' = resets + 1
  /\ UNCHANGED <<builder, made, log, ret>>

-----------------------------------------------------------------------------
(* Spec: a record is encoded, handed over as bytes, registers or coils,    *)
(* and decoded with the same ordered sequence of operations.               *)

Init ==
  /\ builder \in Configs
  /\ decoder = NoDecoder
  /\ made = NotMade
  /\ log = <<>>
  /\ out = <<>>
  /\ prev = <<>>
  /\ resets = 0
  /\ ret = NoRet

\* The next decode call is the one that matches the next encoded value.
Matching(addop) == Len(out) < Len(log) /\ log[Len(out) + 1].op = addop

Next ==
  \/ Call_add_bits(BitSamples)
  \/ Call_add_8bit_uint
  \/ Call_add_16bit_uint
  \/ Call_add_32bit_uint
  \/ Call_add_64bit_uint
  \/ Call_add_8bit_int
  \/ Call_add_16bit_int
  \/ Call_add_32bit_int
  \/ Call_add_64bit_int
  \/ Call_reset_builder
  \/ Make_direct
  \/ Make_fromRegisters
  \/ Make_fromCoils
  \/ Matching("add_bits") /\ Call_decode_bits
  \/ Matching("add_8bit_uint") /\ Call_decode_8bit_uint
  \/ Matching("add_16bit_uint") /\ Call_decode_16bit_uint
  \/ Matching("add_32bit_uint") /\ Call_decode_32bit_uint
  \/ Matching("add_64bit_uint") /\ Call_decode_64bit_uint
  \/ Matching("add_8bit_int") /\ Call_decode_8bit_int
  \/ Matching("add_16bit_int") /\ Call_decode_16bit_int
  \/ Matching("add_32bit_int") /\ Call_decode_32bit_int
  \/ Matching("add_64bit_int") /\ Call_decode_64bit_int

Spec == Init /\ [][Next]_vars

-----------------------------------------------------------------------------
(* SpecMaterialize: add_*, reset and the materialize operations of one     *)
(* builder, in any order.                                                  *)

NextMaterialize ==
  \/ Call_add_bits(BitSamples)
  \/ Call_add_8bit_uint
  \/ Call_add_16bit_uint
  \/ Call_add_32bit_uint
  \/ Call_add_64bit_uint
  \/ Call_add_8bit_int
  \/ Call_add_16bit_int
  \/ Call_add_32bit_int
  \/ Call_add_64bit_int
  \/ Call_reset_builder
  \/ Call_to_string
  \/ Call_build
  \/ Call_to_registers
  \/ Call_to_coils

SpecMaterialize == Init /\ [][NextMaterialize]_vars

-----------------------------------------------------------------------------
(* SpecBits: one add_bits call on a fresh builder, the coils handed over,  *)
(* one decode_bits call.                                                   *)

NextBits ==
  \/ log = <<>> /\ Call_add_bits(BoolLists(0..MaxBits))
  \/ Make_fromCoils
  \/ Matching("add_bits") /\ Call_decode_bits

SpecBits == Init /\ [][NextBits]_vars

-----------------------------------------------------------------------------
(* SpecCoils: fromCoils on any coil list.                                  *)

CoilArgs == {List(c) : c \in BoolLists(0..MaxCoils)}

NextCoils == Call_fromCoils(CoilArgs)

SpecCoils == Init /\ [][NextCoils]_vars

-----------------------------------------------------------------------------
(* SpecDecoder: a decoder over a byte buffer, any calls on it, a reset and *)
(* a second pass that repeats the calls of the first.                      *)

Buffers ==
  {<<>>, <<18>>, <<1, 2, 3>>, <<255, 2, 3, 132, 5>>,
   <<129, 2, 3, 4, 5, 6, 7, 8, 9>>,
   <<255, 254, 253, 252, 251, 250, 249, 248, 1, 2, 3, 4, 5, 6, 7, 128>>}

Sizes == {-1, 0, 1, 3}
Skips == {-2, 0, 1, 9}

InitDecoder ==
  /\ builder = Builder(<<>>, Little, Big, FALSE)
  /\ \E payload \in Buffers, byteorder \in Orders, wordorder \in Orders :
       /\ decoder = Decoder(payload, byteorder, wordorder)
       /\ made = [how |-> "direct", arg |-> Bytes(payload), raised |-> FALSE]
  /\ log = <<>>
  /\ out = <<>>
  /\ prev = <<>>
  /\ resets = 0
  /\ ret = NoRet

\* The first pass makes any calls; a pass after reset() repeats the calls of
\* the pass before it.
Turn(op, arg) ==
  IF resets = 0 THEN Len(out) < MaxOps
  ELSE /\ Len(out) < Len(prev)
       /\ prev[Len(out) + 1].op = op
       /\ prev[Len(out) + 1].arg = arg

NextDecoder ==
  \/ Turn("decode_8bit_uint", 0) /\ Call_decode_8bit_uint
  \/ Turn("decode_16bit_uint", 0) /\ Call_decode_16bit_uint
  \/ Turn("decode_32bit_uint", 0) /\ Call_decode_32bit_uint
  \/ Turn("decode_64bit_uint", 0) /\ Call_decode_64bit_uint
  \/ Turn("decode_8bit_int", 0) /\ Call_decode_8bit_int
  \/ Turn("decode_16bit_int", 0) /\ Call_decode_16bit_int
  \/ Turn("decode_32bit_int", 0) /\ Call_decode_32bit_int
  \/ Turn("decode_64bit_int", 0) /\ Call_decode_64bit_int
  \/ Turn("decode_bits", 0) /\ Call_decode_bits
  \/ \E size \in Sizes : Turn("decode_string", size) /\ Call_decode_string(size)
  \/ \E nbytes \in Skips : Turn("skip_bytes", nbytes) /\ Call_skip_bytes(nbytes)
  \/ Call_reset

SpecDecoder == InitDecoder /\ [][NextDecoder]_vars

-----------------------------------------------------------------------------
(* What the claims are stated with.                                        *)

IntAdds ==
  {"add_8bit_uint", "add_16bit_uint", "add_32bit_uint", "add_64bit_uint",
   "add_8bit_int", "add_16bit_int", "add_32bit_int", "add_64bit_int"}
WideAdds == {"add_32bit_uint", "add_64bit_uint", "add_32bit_int", "add_64bit_int"}

\* Only integers were encoded.
IntOnly == \A k \in 1..Len(log) : log[k].op \in IntAdds

\* The number of bytes an add_<N>bit call encodes: N / 8.
AddWidth(op) ==
  CASE op \in {"add_8bit_uint", "add_8bit_int"} -> 1
    [] op \in {"add_16bit_uint", "add_16bit_int"} -> 2
    [] op \in {"add_32bit_uint", "add_32bit_int"} -> 4
    [] op \in {"add_64bit_uint", "add_64bit_int"} -> 8

RECURSIVE Encoded(_)
Encoded(calls) ==
  IF calls = <<>> THEN 0 ELSE AddWidth(Head(calls).op) + Encoded(Tail(calls))

\* Every value decoded so far is the value encoded at the same place.
DecodedEqualsEncoded == \A k \in 1..Len(out) : out[k].val = log[k].value

\* C1: with only integers encoded, a decoder built directly over to_string()
\* with the builder's byte order and word order, on which the matching decode
\* calls are made in order, returns every encoded value, and once all are
\* decoded the cursor is the number of encoded bytes.
C1_RoundTrip ==
  (made.how = "direct" /\ IntOnly) =>
    /\ DecodedEqualsEncoded
    /\ decoder.payload = to_string(builder)
    /\ Len(out) = Len(log) => decoder.pointer = Encoded(log)

\* C1's case: a negative 64-bit value and a 32-bit value went through a
\* little/little round trip.
C1_Witness ==
  /\ made.how = "direct"
  /\ builder.byteorder = Little /\ builder.wordorder = Little
  /\ Len(log) = 2 /\ Len(out) = 2
  /\ log[1].op = "add_64bit_int" /\ log[1].value.v.neg
  /\ log[2].op = "add_32bit_uint"
  /\ decoder.pointer = 12

\* The canonical big-endian bytes of a wide value, its 16-bit words reversed
\* when the word order is little and the two bytes of each word swapped when
\* the byte order is little, byte by byte.
Layout(be, byteorder, wordorder) ==
  [j \in 1..Len(be) |->
     LET w == (j - 1) \div 2
         b == (j - 1) % 2
         w1 == IF wordorder = Little THEN (Len(be) \div 2) - 1 - w ELSE w
         b1 == IF byteorder = Little THEN 1 - b ELSE b
     IN be[2 * w1 + b1 + 1]]

\* The code letter of struct for a wide add_* call.
AddCode(op) ==
  CASE op = "add_32bit_uint" -> "I" [] op = "add_64bit_uint" -> "Q"
    [] op = "add_32bit_int" -> "i" [] op = "add_64bit_int" -> "q"

\* C2: the fragment of a 32 or 64 bit add call is the big-endian byte string
\* of the value with the words reversed for word order little and the bytes
\* of each word swapped for byte order little: canonical for {big,big}, fully
\* reversed for {little,little}; and the unsigned 32-bit value 1 with byte
\* order little, word order big, repack off gives registers [0x0000, 0x0100].
C2_Layout ==
  /\ \A k \in 1..Len(log) :
       log[k].op \in WideAdds =>
         LET be == pack("!", AddCode(log[k].op), log[k].value.v)
             frag == builder.payload[k]
         IN /\ Len(be) = AddWidth(log[k].op)
            /\ frag = Layout(be, builder.byteorder, builder.wordorder)
            /\ (builder.byteorder = Big /\ builder.wordorder = Big) => frag = be
            /\ (builder.byteorder = Little /\ builder.wordorder = Little) =>
                 frag = reversed(be)
            /\ log[k].value = Wide(FALSE, <<772, 258>>) => be = <<1, 2, 3, 4>>
  /\ ( /\ log = <<[op |-> "add_32bit_uint", value |-> Wide(FALSE, <<1, 0>>)]>>
       /\ builder.byteorder = Little /\ builder.wordorder = Big
       /\ ~builder.repack )
     => to_registers(builder) = <<0, 256>>

\* C2's case: the worked vector has been encoded.
C2_Witness ==
  /\ log = <<[op |-> "add_32bit_uint", value |-> Wide(FALSE, <<1, 0>>)]>>
  /\ builder.byteorder = Little /\ builder.wordorder = Big
  /\ ~builder.repack
  /\ builder.payload = <<(<<0, 0, 1, 0>>)>>

\* C3: build() returns ceil(n/2) chunks of exactly 2 bytes whose concatenation
\* is to_string() followed by one zero byte when n is odd; the last chunk of an
\* odd payload ends in zero and an empty payload gives the empty list.
C3_BuildPadding ==
  ret.build # None =>
    LET string == to_string(builder)
        n == Len(string)
        chunks == ret.build.v
    IN /\ Len(chunks) = (n + 1) \div 2
       /\ \A k \in 1..Len(chunks) : Len(chunks[k]) = 2
       /\ join(chunks) = string \o (IF n % 2 = 1 THEN <<0>> ELSE <<>>)
       /\ n % 2 = 1 => chunks[Len(chunks)][2] = 0
       /\ n = 0 => chunks = <<>>

\* C3's case: build() was called on a payload of odd length over 2 bytes.
C3_Witness ==
  /\ ret.build # None
  /\ Len(to_string(builder)) % 2 = 1
  /\ Len(ret.build.v) >= 2

\* The encoded bytes can be split into registers without padding.
EvenLength == Len(to_string(builder)) % 2 = 0

\* C4 as claimed: for every byte order, word order and repack, integers encoded
\* to an even number of bytes and handed over through to_registers() and
\* fromRegisters() are decoded to the encoded values.
C4_AnyRepack ==
  (made.how = "fromRegisters" /\ IntOnly /\ EvenLength) => DecodedEqualsEncoded

\* C4 amended: the same with repack off, or with byte order big.
C4_RegisterRoundTrip ==
  ( /\ made.how = "fromRegisters" /\ IntOnly /\ EvenLength
    /\ (~builder.repack \/ builder.byteorder = Big) )
  => /\ DecodedEqualsEncoded
     /\ decoder.payload = to_string(builder)

\* C4's case: two values went through registers, word order little.
C4_Witness ==
  /\ made.how = "fromRegisters"
  /\ ~builder.repack /\ builder.byteorder = Little /\ builder.wordorder = Little
  /\ Len(log) = 2 /\ Len(out) = 2
  /\ log[1].op = "add_32bit_int" /\ log[1].value.v.neg
  /\ log[2].op = "add_16bit_uint"

\* A coil list with false values put in front of it up to a multiple of 8.
PaddedTo8(coils) == [k \in 1..((8 - (Len(coils) % 8)) % 8) |-> FALSE] \o coils

\* A group of 8 coils as a byte whose most significant bit is the first coil.
RECURSIVE MsbFirstByte(_)
MsbFirstByte(g) ==
  IF g = <<>> THEN 0
  ELSE (IF Head(g) THEN 2 ^ (Len(g) - 1) ELSE 0) + MsbFirstByte(Tail(g))

\* C5 as claimed, the size of the buffer: fromCoils pads n coils to a multiple
\* of 8, so the decoder's buffer has exactly ceil(n/8) bytes.
C5_FromCoilsSize ==
  (made.how = "fromCoils" /\ ~made.raised) =>
    Len(decoder.payload) = (Len(made.arg.v) + 7) \div 8

\* C5 as claimed, in full: fromCoils on n coils gives a buffer of ceil(n/8)
\* bytes, the buffer it gives for the coils with (8 - n mod 8) mod 8 false values
\* in front, each group of 8 a byte whose most significant bit is the group's
\* first coil.  (Where the size is right and only the bytes differ, the list
\* handed to pack_bitstring is shorter than 8.)
C5_FromCoilsPads ==
  (made.how = "fromCoils" /\ ~made.raised) =>
    LET coils == made.arg.v
        padded == PaddedTo8(coils)
    IN /\ Len(decoder.payload) = (Len(coils) + 7) \div 8
       /\ decoder.payload
            = fromCoils(List(padded), decoder.byteorder, decoder.wordorder).v.payload
       /\ \A k \in 1..Len(decoder.payload) :
            decoder.payload[k] = MsbFirstByte(SubSeq(padded, 8 * k - 7, 8 * k))

\* A bit list of at most 8 entries with false values in front up to 8 entries.
LeftPadded(s) == [k \in 1..8 |-> IF k <= 8 - Len(s) THEN FALSE ELSE s[k - (8 - Len(s))]]

\* One bit list of 1..7 entries was encoded, handed over as coils and decoded
\* with one decode_bits call.
BitsWentRound ==
  /\ made.how = "fromCoils"
  /\ Len(log) = 1 /\ log[1].op = "add_bits" /\ Len(log[1].value.v) \in 1..7
  /\ Len(out) = 1

\* What decode_bits returned is the encoded list left-padded with false.
BitsComeBack ==
  /\ out[1].val = Bits(LeftPadded(log[1].value.v))
  /\ log[1].value.v = <<TRUE, FALSE, TRUE>> =>
       out[1].val.v = <<FALSE, FALSE, FALSE, FALSE, FALSE, TRUE, FALSE, TRUE>>

\* C6 as claimed: add_bits(s), to_coils(), fromCoils(), decode_bits() returns s
\* left-padded with false to 8 entries, whatever the builder's configuration.
C6_AnyConfig == BitsWentRound => BitsComeBack

\* C6 amended: the same with repack off, or with byte order big.
C6_BitRoundTrip ==
  (BitsWentRound /\ (~builder.repack \/ builder.byteorder = Big)) => BitsComeBack

\* C6's case: [true, false, true] went round with the default configuration.
C6_Witness ==
  /\ BitsWentRound
  /\ builder.byteorder = Little /\ builder.wordorder = Big /\ ~builder.repack
  /\ log[1].value.v = <<TRUE, FALSE, TRUE>>
  /\ out[1].val.v = <<FALSE, FALSE, FALSE, FALSE, FALSE, TRUE, FALSE, TRUE>>

IntDecodes ==
  {"decode_8bit_uint", "decode_16bit_uint", "decode_32bit_uint", "decode_64bit_uint",
   "decode_8bit_int", "decode_16bit_int", "decode_32bit_int", "decode_64bit_int"}

\* The number of bytes a decoder call consumes.
DecodeWidth(call) ==
  CASE call.op \in {"decode_8bit_uint", "decode_8bit_int", "decode_bits"} -> 1
    [] call.op \in {"decode_16bit_uint", "decode_16bit_int"} -> 2
    [] call.op \in {"decode_32bit_uint", "decode_32bit_int"} -> 4
    [] call.op \in {"decode_64bit_uint", "decode_64bit_int"} -> 8
    [] call.op \in {"decode_string", "skip_bytes"} -> call.arg

RECURSIVE Consumed(_)
Consumed(calls) ==
  IF calls = <<>> THEN 0 ELSE DecodeWidth(Head(calls)) + Consumed(Tail(calls))

\* The cursor is the sum of the widths of the calls since construction or the
\* last reset().
CursorIsSumOfWidths == Decoding => decoder.pointer = Consumed(out)

\* C7 as claimed: every call advances the cursor by its width, the cursor is
\* the sum of the widths consumed since construction or the last reset(), no
\* call but reset() decreases it, and it is never below 0.
C7_CursorNeverDecreases ==
  Decoding =>
    /\ decoder.pointer = Consumed(out)
    /\ \A k \in 1..Len(out) : Consumed(SubSeq(out, 1, k - 1)) <= Consumed(SubSeq(out, 1, k))
    /\ decoder.pointer >= 0

\* The cursor before the k-th call of the pass, and the bytes left after it.
Start(k) == Consumed(SubSeq(out, 1, k - 1))
Left(k) == Max(Len(decoder.payload) - Start(k), 0)
Rest(k) == SubSeq(decoder.payload, Start(k) + 1, Len(decoder.payload))

\* The k-th call found fewer bytes left than the width it consumes.
Underrun(k) == Start(k) >= 0 /\ DecodeWidth(out[k]) > Left(k)

\* C8 as claimed: a decode call with fewer bytes left than its width does not
\* raise an error.
C8_NeverFails ==
  \A k \in 1..Len(out) : Underrun(k) => out[k].val.kind # "error"

\* C8 amended: with fewer bytes left than its width, decode_string returns the
\* bytes that are left, decode_bits on the empty slice returns no bits, and
\* every decode_<N>bit_int / decode_<N>bit_uint raises struct.error.
C8_Underrun ==
  \A k \in 1..Len(out) :
    Underrun(k) =>
      /\ out[k].op \in IntDecodes => out[k].val = StructError
      /\ out[k].op = "decode_string" => out[k].val = Bytes(Rest(k))
      /\ out[k].op = "decode_bits" => out[k].val = Bits(<<>>)

\* C8's case: a decode_string call got a truncated slice, and the integer
\* decode after it found too few bytes.
C8_Witness ==
  /\ \E k \in 1..Len(out) :
       /\ Underrun(k) /\ out[k].op = "decode_string"
       /\ out[k].val.v # <<>>
  /\ \E k \in 1..Len(out) :
       /\ Underrun(k) /\ out[k].op \in IntDecodes
       /\ out[k].val = StructError

\* C9: a materialize call leaves the builder's fragments and configuration as
\* they are, and returns what every earlier call of the same operation
\* returned since the last add_* or reset().
C9_MaterializePure ==
  [][ret' # NoRet =>
       /\ builder' = builder
       /\ \A op \in DOMAIN ret : ret[op] # None => ret'[op] = ret[op]]_vars

\* C9's case: all four materialize operations were called on a payload of two
\* fragments.
C9_Witness ==
  /\ \A op \in DOMAIN ret : ret[op] # None
  /\ Len(builder.payload) = 2
  /\ Len(ret.to_coils.v) = 16 * Len(ret.to_registers.v)
  /\ Len(ret.build.v) >= 2

\* C10: reset() sets the cursor to 0 and leaves the buffer, the byte order and
\* the word order as they are, and the calls of the pass before it, made again,
\* return what they returned before.
C10_ResetRewinds ==
  /\ [][resets' = resets + 1 =>
          /\ decoder'.pointer = 0
          /\ decoder'.payload = decoder.payload
          /\ decoder'.byteorder = decoder.byteorder
          /\ decoder'.wordorder = decoder.wordorder]_vars
  /\ [](resets > 0 => \A k \in 1..Len(out) : out[k] = prev[k])

\* C10's case: reset() was called with the cursor past the end of the buffer
\* and both calls of the first pass were made again.
C10_Witness ==
  /\ resets = 1
  /\ Len(prev) = 2 /\ Len(out) = 2
  /\ Consumed(prev) > Len(decoder.payload)
  /\ out[1].val.kind = "wide"
  /\ out[2].val = StructError

-----------------------------------------------------------------------------
(* SpecFactory: fromRegisters and fromCoils on any argument, a list or not. *)

Tuple(v) == [kind |-> "tuple", v |-> v]

RegisterSamples == {0, 258, 65535}
RegisterArgs ==
  {List(r) : r \in UNION {[1..n -> RegisterSamples] : n \in 0..MaxRegs}}
    \cup {IntV(5), Tuple(<<1, 2>>)}
CoilOrNotArgs == CoilArgs \cup {IntV(5), Tuple(<<TRUE, FALSE>>)}

\* fromRegisters on any argument.
Call_fromRegisters(Args) ==
  \E registers \in Args, byteorder \in Orders, wordorder \in Orders :
    Construct("fromRegisters", registers, fromRegisters(registers, byteorder, wordorder))

InitFactory == Init /\ builder = Builder(<<>>, Little, Big, FALSE)

NextFactory ==
  \/ Call_fromRegisters(RegisterArgs)
  \/ Call_fromCoils(CoilOrNotArgs)

SpecFactory == InitFactory /\ [][NextFactory]_vars

\* C11: fromRegisters and fromCoils raise ParameterException and give no
\* decoder for an argument that is not a list; for a list, the empty one
\* included, they do not raise it and return a decoder with cursor 0.
C11_InputValidation ==
  made.how \in {"fromRegisters", "fromCoils"} =>
    IF made.arg.kind = "list"
    THEN /\ ~made.raised
         /\ decoder.byteorder \in Orders
         /\ decoder.pointer = 0
    ELSE /\ made.raised
         /\ decoder = NoDecoder

\* C11's case: fromRegisters was handed a single integer and raised.
C11_Witness ==
  /\ made.how = "fromRegisters"
  /\ made.arg = IntV(5)
  /\ made.raised

-----------------------------------------------------------------------------
(* The register and coil forms carried into a decoder.                     *)

\* A buffer split into 2-byte chunks, each read as a big-endian unsigned word.
BigEndianWords(bs) ==
  [k \in 1..(Len(bs) \div 2) |-> bs[2 * k - 1] * 256 + bs[2 * k]]

\* C12: for any builder contents and every byte order, word order and repack
\* setting, the decoder built by fromRegisters(to_registers()) holds a buffer
\* of two bytes per register whose big-endian unsigned words are the register
\* list to_registers() returned, and every register is in 0..65535.
C12_RegistersComeBack ==
  (made.how = "fromRegisters" /\ ~made.raised) =>
    /\ made.arg = List(to_registers(builder))
    /\ Len(decoder.payload) = 2 * Len(made.arg.v)
    /\ BigEndianWords(decoder.payload) = made.arg.v
    /\ \A k \in 1..Len(made.arg.v) : made.arg.v[k] \in 0..65535

\* C12's case: an odd number of bytes was encoded with repack on and byte
\* order little, and the registers, one of them above 32767, went through
\* fromRegisters.
C12_Witness ==
  /\ made.how = "fromRegisters"
  /\ builder.repack
  /\ builder.byteorder = Little
  /\ Len(to_string(builder)) % 2 = 1
  /\ Len(made.arg.v) >= 2
  /\ \E k \in 1..Len(made.arg.v) : made.arg.v[k] > 32767
  /\ BigEndianWords(decoder.payload) = made.arg.v

\* The 8 bits of a byte and the 16 bits of a register, most significant first.
MsbFirst(n, width) == [j \in 1..width |-> (n \div (2 ^ (width - j))) % 2 = 1]

\* C13: to_coils() returns 16 booleans per register of to_registers(), each
\* register expanded most significant bit first in register order, and the
\* decoder built by fromCoils(to_coils()) holds a buffer whose bytes, each
\* expanded most significant bit first, are that boolean list.
C13_CoilsComeBack ==
  (made.how = "fromCoils" /\ ~made.raised) =>
    LET coils == made.arg.v
        registers == to_registers(builder)
        payload == decoder.payload
    IN /\ made.arg = List(to_coils(builder))
       /\ Len(coils) = 16 * Len(registers)
       /\ \A k \in 1..Len(registers) :
            SubSeq(coils, 16 * k - 15, 16 * k) = MsbFirst(registers[k], 16)
       /\ Len(payload) * 8 = Len(coils)
       /\ \A k \in 1..Len(payload) :
            SubSeq(coils, 8 * k - 7, 8 * k) = MsbFirst(payload[k], 8)

\* C13's case: two registers of coils, with a byte that is not its own
\* mirror image, went through fromCoils.
C13_Witness ==
  /\ made.how = "fromCoils"
  /\ Len(made.arg.v) >= 32
  /\ \E k \in 1..Len(decoder.payload) :
       /\ MsbFirst(decoder.payload[k], 8) # reversed(MsbFirst(decoder.payload[k], 8))
       /\ SubSeq(made.arg.v, 8 * k - 7, 8 * k) = MsbFirst(decoder.payload[k], 8)

-----------------------------------------------------------------------------
(* The byte order and word order of a decoder built by fromCoils.          *)

\* The decode_<N>bit_* call of a recorded call, made on the decoder self.
DecodeCall(self, call) ==
  CASE call.op = "decode_8bit_uint" -> decode_8bit_uint(self)
    [] call.op = "decode_16bit_uint" -> decode_16bit_uint(self)
    [] call.op = "decode_32bit_uint" -> decode_32bit_uint(self)
    [] call.op = "decode_64bit_uint" -> decode_64bit_uint(self)
    [] call.op = "decode_8bit_int" -> decode_8bit_int(self)
    [] call.op = "decode_16bit_int" -> decode_16bit_int(self)
    [] call.op = "decode_32bit_int" -> decode_32bit_int(self)
    [] call.op = "decode_64bit_int" -> decode_64bit_int(self)

\* C14 as claimed: a decoder built by fromCoils(coils, byteorder, wordorder)
\* returns from every decode_<N>bit_* call what the same call returns on a
\* decoder built directly over the same bytes with that byte order and word
\* order, so that with repack off the integers encoded come back through
\* to_coils() and fromCoils() for every word order.
C14_FromCoilsOrders ==
  (made.how = "fromCoils" /\ ~made.raised) =>
    LET direct == Decoder(decoder.payload, builder.byteorder, builder.wordorder)
    IN /\ \A k \in 1..Len(out) :
            out[k].op \in IntDecodes =>
              out[k].val = DecodeCall([direct EXCEPT !.pointer = Start(k)], out[k]).val
       /\ (~builder.repack /\ IntOnly) => DecodedEqualsEncoded

-----------------------------------------------------------------------------
(* The same encode calls made on a builder with the other repack setting.  *)

\* The add_* call of a recorded call, made on the builder self.
AddCall(self, call) ==
  CASE call.op = "add_bits" -> add_bits(self, call.value.v)
    [] call.op = "add_8bit_uint" -> add_8bit_uint(self, call.value.v)
    [] call.op = "add_16bit_uint" -> add_16bit_uint(self, call.value.v)
    [] call.op = "add_32bit_uint" -> add_32bit_uint(self, call.value.v)
    [] call.op = "add_64bit_uint" -> add_64bit_uint(self, call.value.v)
    [] call.op = "add_8bit_int" -> add_8bit_int(self, call.value.v)
    [] call.op = "add_16bit_int" -> add_16bit_int(self, call.value.v)
    [] call.op = "add_32bit_int" -> add_32bit_int(self, call.value.v)
    [] call.op = "add_64bit_int" -> add_64bit_int(self, call.value.v)

RECURSIVE Replay(_, _)
Replay(calls, self) ==
  IF calls = <<>> THEN self ELSE Replay(Tail(calls), AddCall(self, Head(calls)))

\* The builder the logged calls give when repack is the other way round.
Twin ==
  Replay(log, Builder(<<>>, builder.byteorder, builder.wordorder, ~builder.repack))

\* A register with its two bytes swapped.
SwapBytes(reg) == (reg % 256) * 256 + reg \div 256

\* SpecRepack: the encode calls under every configuration, with to_string()
\* and to_registers() called in between.
NextRepack ==
  \/ Call_add_bits(BitSamples)
  \/ Call_add_8bit_uint
  \/ Call_add_16bit_uint
  \/ Call_add_32bit_uint
  \/ Call_add_64bit_uint
  \/ Call_add_8bit_int
  \/ Call_add_16bit_int
  \/ Call_add_32bit_int
  \/ Call_add_64bit_int
  \/ Call_reset_builder
  \/ Call_to_string
  \/ Call_to_registers

SpecRepack == Init /\ [][NextRepack]_vars

\* C15: for the same add_* calls, to_string() and build() are the same with
\* repack on and off; to_registers() with repack on is the repack-off list
\* when the byte order is big, and the repack-off list with the two bytes of
\* every register swapped when it is little, whatever the word order; and
\* to_coils() expands those registers.
C15_RepackOnlyRegisters ==
  LET mine == to_registers(builder)
      theirs == to_registers(Twin)
  IN /\ Twin.payload = builder.payload
     /\ to_string(Twin) = to_string(builder)
     /\ build(Twin) = build(builder)
     /\ Len(mine) = Len(theirs)
     /\ \A k \in 1..Len(mine) :
          mine[k] = IF builder.byteorder = Big THEN theirs[k] ELSE SwapBytes(theirs[k])
     /\ to_coils(builder) = join([k \in 1..Len(mine) |-> MsbFirst(mine[k], 16)])

\* C15's case: with repack on and byte order little, to_string() and
\* to_registers() were called on two fragments, and a register differs from
\* the repack-off one.
C15_Witness ==
  /\ builder.repack
  /\ builder.byteorder = Little
  /\ Len(log) = 2
  /\ ret.to_string # None
  /\ ret.to_string.v = to_string(Twin)
  /\ ret.to_registers # None
  /\ ret.to_registers.v # to_registers(Twin)
  /\ \A k \in 1..Len(ret.to_registers.v) :
       ret.to_registers.v[k] = SwapBytes(to_registers(Twin)[k])

====
